---- MODULE Spec2Model ----
(***************************************************************************)
(* Model of adspower_rpa: the AuthorizationChecker (checker.py) running    *)
(* one _run_single task per profile behind an asyncio.Semaphore, the       *)
(* response interpreter functions of checker.py, and the outcomes of       *)
(* AdsPowerClient.run_automation (client.py).                              *)
(*                                                                         *)
(* Python values are modelled as tagged records:                           *)
(*   None   [t |-> "null"]            bool  [t |-> "bool", b |-> TRUE]     *)
(*   str    [t |-> "str", s |-> <<"a","b">>]   (a sequence of characters)  *)
(*   int    [t |-> "num", n |-> 42]   list  [t |-> "list", l |-> <<>>]     *)
(*   float  [t |-> "float", f |-> 35]  (3.5, in tenths)                      *)
(*   dict   [t |-> "dict", kv |-> [k \in Keys |-> value]]                  *)
(* Optional[X] is [some |-> FALSE] (None) or [some |-> TRUE, v |-> x].     *)
(***************************************************************************)
EXTENDS Integers, Sequences, FiniteSets, TLC

\* ---------------------------------------------------------------- bounds
MaxProfiles == 3
MaxTextLen == 2
MaxTimedProfiles == 2
MaxClock == 2
NumCallers == 2
MaxSessions == 2
MaxLiveProfiles == 2

\* ------------------------------------------------------- python values
PyNone == [t |-> "null"]
PyBool(b) == [t |-> "bool", b |-> b]
PyText(s) == [t |-> "str", s |-> s]
PyNum(n) == [t |-> "num", n |-> n]
\* a float, held in tenths: 3.5 is PyFloat(35)
PyFloat(f) == [t |-> "float", f |-> f]
PyList(l) == [t |-> "list", l |-> l]
PyDict(kv) == [t |-> "dict", kv |-> kv]
EmptyDict == PyDict([k \in {} |-> PyNone])

None == [some |-> FALSE]
Some(x) == [some |-> TRUE, v |-> x]

IsDict(x) == x.t = "dict"

\* dict.get(key): the value, or None when the key is missing
DictGet(d, key) == IF key \in DOMAIN d.kv THEN d.kv[key] ELSE PyNone

\* dict.get(key, default)
DictGetDefault(d, key, default) == IF key \in DOMAIN d.kv THEN d.kv[key] ELSE default

\* ------------------------------------------------------------- str ops
UpperCase == <<"A","B","C","D","E","F","G","H","I","J","K","L","M","N","O","P","Q","R","S","T","U","V","W","X","Y","Z">>
LowerCase == <<"a","b","c","d","e","f","g","h","i","j","k","l","m","n","o","p","q","r","s","t","u","v","w","x","y","z">>

LowerChar(c) ==
    IF \E k \in 1..Len(UpperCase) : UpperCase[k] = c
    THEN LowerCase[CHOOSE k \in 1..Len(UpperCase) : UpperCase[k] = c]
    ELSE c

\* str.lower()
StrLower(s) == [k \in 1..Len(s) |-> LowerChar(s[k])]

IsSpace(c) == c \in {" ", "\t", "\n"}

\* str.strip(): drop leading and trailing whitespace
StrStrip(s) ==
    LET idx == {k \in 1..Len(s) : ~IsSpace(s[k])}
    IN  IF idx = {} THEN <<>>
        ELSE LET lo == CHOOSE k \in idx : \A j \in idx : k <= j
                 hi == CHOOSE k \in idx : \A j \in idx : k >= j
             IN  SubSeq(s, lo, hi)

Digits == <<"0","1","2","3","4","5","6","7","8","9">>

RECURSIVE NatStr(_)
NatStr(n) == IF n < 10 THEN <<Digits[n + 1]>> ELSE NatStr(n \div 10) \o <<Digits[(n % 10) + 1]>>

\* str(value) for the scalar values a JSON body can hold
PyStr(x) ==
    CASE x.t = "str" -> x.s
      [] x.t = "num" -> IF x.n < 0 THEN <<"-">> \o NatStr(0 - x.n) ELSE NatStr(x.n)
      [] x.t = "float" ->
            LET a == IF x.f < 0 THEN 0 - x.f ELSE x.f
            IN  (IF x.f < 0 THEN <<"-">> ELSE <<>>) \o NatStr(a \div 10) \o <<".">> \o NatStr(a % 10)
      [] x.t = "bool" -> IF x.b THEN <<"T","r","u","e">> ELSE <<"F","a","l","s","e">>
      [] x.t = "null" -> <<"N","o","n","e">>
      [] x.t = "list" -> <<"[","]">>
      [] OTHER -> <<"{","}">>

\* ------------------------------------------------- response interpreter
\* A call that may raise gives [ok |-> TRUE, v |-> value] or
\* [ok |-> FALSE, exc |-> exception].
Returned(v) == [ok |-> TRUE, v |-> v]
Raised(exc) == [ok |-> FALSE, exc |-> exc]

Exc(cls, msg) == [cls |-> cls, msg |-> msg]

\* x.get(...) on a value that is no dict raises AttributeError
NoGet(x) == Exc("AttributeError", "object has no attribute 'get'")

TrueWords == {<<"1">>, <<"t","r","u","e">>, <<"y","e","s">>, <<"y">>}

_extract_variables(response) ==
    IF ~IsDict(response) THEN Raised(NoGet(response))
    ELSE LET data == DictGetDefault(response, "data", EmptyDict)
         IN  IF ~IsDict(data) THEN Raised(NoGet(data))
             ELSE LET variables == DictGet(data, "variables")
                  IN  IF IsDict(variables) THEN Returned(variables)
                      ELSE IF IsDict(DictGet(response, "variables"))
                           THEN Returned(response.kv["variables"])
                           ELSE Returned(EmptyDict)

\* mutant of _parse_bool: the text is not stripped
_parse_bool_unstripped(value) ==
    CASE value.t = "bool" -> value.b
      [] value.t = "str" -> StrLower(value.s) \in TrueWords
      [] value.t = "num" -> value.n # 0
      [] value.t = "float" -> value.f # 0
      [] OTHER -> FALSE

_parse_bool(value) ==
    CASE value.t = "bool" -> value.b
      [] value.t = "str" -> StrLower(StrStrip(value.s)) \in TrueWords
      [] value.t = "num" -> value.n # 0
      [] value.t = "float" -> value.f # 0
      [] OTHER -> FALSE

\* mutant of _coerce_optional_str: `return text` in place of `return text or None`
_coerce_optional_str_keeps_empty(value) ==
    IF value.t = "null" THEN None ELSE Some(StrStrip(PyStr(value)))

_coerce_optional_str(value) ==
    IF value.t = "null" THEN None
    ELSE LET text == StrStrip(PyStr(value))
         IN  IF text = <<>> THEN None ELSE Some(text)

AuthorizationDetails(variables) ==
    [authorized |-> _parse_bool(DictGet(variables, "service_authorized")),
     display_name |-> _coerce_optional_str(DictGet(variables, "service_display_name")),
     profile_serial |-> _coerce_optional_str(DictGet(variables, "profile_serial")),
     raw_variables |-> variables]

\* ------------------------------------------------------------ gateway
\* What one call of AdsPowerClient.run_automation can do: return the JSON body
\* of the response (response.json()), or raise the httpx error of the request
\* or of raise_for_status().  str(httpx.ReadTimeout) is the empty string.
Response_Bob ==
    PyDict([k \in {"data"} |->
        PyDict([j \in {"variables"} |->
            PyDict([v \in {"service_authorized", "service_display_name"} |->
                IF v = "service_authorized" THEN PyText(<<"t","r","u","e">>)
                ELSE PyText(<<" ","B","o","b"," ">>)])])])

Response_Empty == EmptyDict

Response_DataNull == PyDict([k \in {"data"} |-> PyNone])

GatewayReturns == {Response_Bob, Response_Empty, Response_DataNull}

GatewayRaises == {Exc("ReadTimeout", ""), Exc("ConnectError", "All connection attempts failed")}

run_automation == {Returned(r) : r \in GatewayReturns} \cup {Raised(e) : e \in GatewayRaises}

\* ----------------------------------------------------------- _run_single
\* The classes `except Exception` catches; asyncio.CancelledError derives from
\* BaseException and is not one of them.
ExceptionClasses == {"ReadTimeout", "ConnectError", "AttributeError"}

\* mutant of Caught: `except httpx.HTTPError` in place of `except Exception`
CaughtTransportOnly(exc) == exc.cls \in {"ReadTimeout", "ConnectError"}

Caught(exc) == exc.cls \in ExceptionClasses

\* str(exc)
ExcStr(exc) == exc.msg

ProfileCheckResult(profile, success, details, error, raw_response) ==
    [profile_id |-> profile.id,
     label |-> profile.label,
     success |-> success,
     details |-> details,
     error |-> error,
     raw_response |-> raw_response]

\* mutant of RunSingleBody: `error = str(exc) or None`
RunSingleBodyErrorOrNone(profile, outcome) ==
    LET raw_response == IF outcome.ok THEN outcome.v ELSE EmptyDict
        tried == IF outcome.ok THEN _extract_variables(outcome.v) ELSE Raised(outcome.exc)
    IN  IF tried.ok
        THEN Returned(ProfileCheckResult(profile, TRUE,
                 Some(AuthorizationDetails(tried.v)), None, raw_response))
        ELSE Returned(ProfileCheckResult(profile, FALSE, None,
                 IF ExcStr(tried.exc) = "" THEN None ELSE Some(ExcStr(tried.exc)),
                 raw_response))

\* mutant of RunSingleBody: raw_response is assigned only after the interpretation
\* (`response = await ...; variables = ...; raw_response = response`)
RunSingleBodyRawAfterInterpretation(profile, outcome) ==
    LET tried == IF outcome.ok THEN _extract_variables(outcome.v) ELSE Raised(outcome.exc)
        raw_response == IF tried.ok THEN outcome.v ELSE EmptyDict
    IN  IF tried.ok
        THEN Returned(ProfileCheckResult(profile, TRUE,
                 Some(AuthorizationDetails(tried.v)), None, raw_response))
        ELSE IF Caught(tried.exc)
             THEN Returned(ProfileCheckResult(profile, FALSE,
                      None, Some(ExcStr(tried.exc)), raw_response))
             ELSE Raised(tried.exc)

\* The body of _run_single from the moment the gateway call ends (outcome) to the
\* task's end: Returned(result) or Raised(exception that left the task).
RunSingleBody(profile, outcome) ==
    LET raw_response == IF outcome.ok THEN outcome.v ELSE EmptyDict
        tried == IF outcome.ok THEN _extract_variables(outcome.v) ELSE Raised(outcome.exc)
    IN  IF tried.ok
        THEN Returned(ProfileCheckResult(profile, TRUE,
                 Some(AuthorizationDetails(tried.v)), None, raw_response))
        ELSE IF Caught(tried.exc)
             THEN Returned(ProfileCheckResult(profile, FALSE,
                      None, Some(ExcStr(tried.exc)), raw_response))
             ELSE Raised(tried.exc)

\* ------------------------------------------------------------------ state
VARIABLES
    profiles,        \* self._profiles
    concurrencyArg,  \* the concurrency argument of __init__
    concurrency,     \* self._concurrency
    runPc,           \* run(): "idle", "gather", "returned", "raised", "cancelling", "cancelled"
    semaphore,       \* free slots of the asyncio.Semaphore of run()
    pc,              \* per task: "none", "created", "acquire", "call", "done", "raised", "cancelled"
    calls,           \* per task: number of run_automation calls made
    gwLog,           \* per task: what its run_automation call did
    taskResult,      \* per task: the ProfileCheckResult it returned
    results          \* the list run() returned

\* the clock now_utc() reads, and what each task read from it
VARIABLES
    clock,           \* the current time
    started_at,      \* per task: started_at of _run_single
    finished_at      \* per task: finished_at of _run_single

\* one AdsPowerClient and the callers of its methods
VARIABLES
    clientRef,       \* self._client: 0 for None, else the number of the session
    lockHeld,        \* self._lock is locked
    nSessions,       \* the httpx.AsyncClient sessions created so far
    closeCount,      \* per session: the aclose() calls made on it
    cpc,             \* per caller: "idle", "getWait", "post", "closeWait", "closing"
    sendLog,         \* per caller: the session of its last request and whether it was open
    scopePc          \* `async with AdsPowerClient(...)`: "unscoped", "before", "inside", "closing", "exited", "closedAgain"

\* one application of an interpreter function
VARIABLES
    pureFn,          \* the function applied, "none" before
    pureArg,         \* its argument
    pureOut          \* what it gave

checkerVars == <<profiles, concurrencyArg, concurrency, runPc, semaphore, pc, calls, gwLog, taskResult, results>>

timeVars == <<clock, started_at, finished_at>>

clientVars == <<clientRef, lockHeld, nSessions, closeCount, cpc, sendLog, scopePc>>

pureVars == <<pureFn, pureArg, pureOut>>

vars == <<checkerVars, timeVars, clientVars, pureVars>>

ProfileConfigs == {[id |-> "p1", label |-> Some("first")], [id |-> "p2", label |-> None]}

ProfileLists == UNION {[1..n -> ProfileConfigs] : n \in 0..MaxProfiles}

ConcurrencyArgs(n) == {-1, 0, 1, 2, n, 2 * n}

Jobs == 1..Len(profiles)

Terminal == {"done", "raised", "cancelled"}

\* mutant of ClampConcurrency: `self._concurrency = concurrency`
ClampConcurrencyNone(c) == c

\* self._concurrency = max(1, concurrency)
ClampConcurrency(c) == IF c > 1 THEN c ELSE 1

\* no task has read the clock
TimeInit ==
    /\ clock = 0
    /\ started_at = [i \in Jobs |-> None]
    /\ finished_at = [i \in Jobs |-> None]

\* AdsPowerClient.__init__: no session, the lock free; no caller
ClientUnused ==
    /\ clientRef = 0
    /\ lockHeld = FALSE
    /\ nSessions = 0
    /\ closeCount = <<>>
    /\ cpc = <<>>
    /\ sendLog = <<>>
    /\ scopePc = "unscoped"

\* no interpreter function is applied on its own
PureUnused ==
    /\ pureFn = "none"
    /\ pureArg = PyNone
    /\ pureOut = None

Init ==
    /\ profiles \in ProfileLists
    /\ concurrencyArg \in ConcurrencyArgs(Len(profiles))
    /\ concurrency = ClampConcurrency(concurrencyArg)
    /\ runPc = "idle"
    /\ semaphore = 0
    /\ pc = [i \in Jobs |-> "none"]
    /\ calls = [i \in Jobs |-> 0]
    /\ gwLog = [i \in Jobs |-> None]
    /\ taskResult = [i \in Jobs |-> None]
    /\ results = None
    /\ TimeInit
    /\ ClientUnused
    /\ PureUnused

\* run() up to `await asyncio.gather(*tasks)`: the semaphore and one task per profile
Run ==
    /\ runPc = "idle"
    /\ runPc' = "gather"
    /\ semaphore' = concurrency
    /\ pc' = [i \in Jobs |-> "created"]
    /\ UNCHANGED <<profiles, concurrencyArg, concurrency, calls, gwLog, taskResult, results>>
    /\ UNCHANGED <<timeVars, clientVars, pureVars>>

\* task.cancel() was called on the task and it has not ended yet
CancelRequested(i) == runPc \in {"cancelling", "cancelled"} /\ pc[i] \notin Terminal

\* mutant of CanAcquire: the gateway call is not behind the semaphore
CanAcquireAlways == TRUE

\* Semaphore.acquire() returns without waiting
CanAcquire == semaphore > 0

\* mutant of TaskStart: a task that finds no free slot fails at once instead of
\* waiting for one
TaskStartNoWait(i) ==
    /\ pc[i] = "created"
    /\ ~CancelRequested(i)
    /\ IF semaphore > 0
       THEN /\ semaphore' = semaphore - 1
            /\ pc' = [pc EXCEPT ![i] = "call"]
            /\ calls' = [calls EXCEPT ![i] = @ + 1]
            /\ UNCHANGED taskResult
       ELSE /\ pc' = [pc EXCEPT ![i] = "done"]
            /\ taskResult' = [taskResult EXCEPT ![i] =
                   Some(ProfileCheckResult(profiles[i], FALSE, None, Some("busy"), EmptyDict))]
            /\ UNCHANGED <<semaphore, calls>>
    /\ UNCHANGED <<profiles, concurrencyArg, concurrency, runPc, gwLog, results>>
    /\ UNCHANGED <<clientVars, pureVars>>
    /\ started_at' = [started_at EXCEPT ![i] = Some(clock)]
    /\ UNCHANGED <<clock, finished_at>>

\* A task's first step: `async with semaphore`, and behind it the gateway call
TaskStart(i) ==
    /\ pc[i] = "created"
    /\ ~CancelRequested(i)
    /\ IF CanAcquire
       THEN /\ semaphore' = semaphore - 1
            /\ pc' = [pc EXCEPT ![i] = "call"]
            /\ calls' = [calls EXCEPT ![i] = @ + 1]
       ELSE /\ pc' = [pc EXCEPT ![i] = "acquire"]
            /\ UNCHANGED <<semaphore, calls>>
    /\ UNCHANGED <<profiles, concurrencyArg, concurrency, runPc, gwLog, taskResult, results>>
    /\ UNCHANGED <<clientVars, pureVars>>
    /\ started_at' = [started_at EXCEPT ![i] = Some(clock)]
    /\ UNCHANGED <<clock, finished_at>>

\* A task waiting in Semaphore.acquire() gets a slot and calls the gateway.
\* asyncio wakes the waiting tasks in the order they came; any order is allowed here.
Acquire(i) ==
    /\ pc[i] = "acquire"
    /\ ~CancelRequested(i)
    /\ CanAcquire
    /\ semaphore' = semaphore - 1
    /\ pc' = [pc EXCEPT ![i] = "call"]
    /\ calls' = [calls EXCEPT ![i] = @ + 1]
    /\ UNCHANGED <<profiles, concurrencyArg, concurrency, runPc, gwLog, taskResult, results>>
    /\ UNCHANGED <<timeVars, clientVars, pureVars>>

\* mutant of TaskFinish: a failed job cancels the jobs that have not ended
TaskFinishCancelsOthers(i, o) ==
    /\ pc[i] = "call"
    /\ ~CancelRequested(i)
    /\ LET out == RunSingleBody(profiles[i], o)
           failed == ~out.ok \/ ~out.v.success
           hit == IF failed THEN {j \in Jobs : j # i /\ pc[j] \notin Terminal} ELSE {}
       IN  /\ gwLog' = [gwLog EXCEPT ![i] = Some(o)]
           /\ semaphore' = semaphore + 1 + Cardinality({j \in hit : pc[j] = "call"})
           /\ pc' = [j \in Jobs |->
                       IF j = i THEN (IF out.ok THEN "done" ELSE "raised")
                       ELSE IF j \in hit THEN "cancelled" ELSE pc[j]]
           /\ taskResult' = IF out.ok THEN [taskResult EXCEPT ![i] = Some(out.v)] ELSE taskResult
           /\ runPc' = IF ~out.ok /\ runPc = "gather" THEN "raised" ELSE runPc
    /\ UNCHANGED <<profiles, concurrencyArg, concurrency, calls, results>>
    /\ UNCHANGED <<clientVars, pureVars>>
    /\ finished_at' = IF RunSingleBody(profiles[i], o).ok
                      THEN [finished_at EXCEPT ![i] = Some(clock)]
                      ELSE finished_at
    /\ UNCHANGED <<clock, started_at>>

\* mutant of TaskFinish: a failed gateway call is tried a second time
TaskFinishRetry(i, o) ==
    /\ pc[i] = "call"
    /\ ~CancelRequested(i)
    /\ LET out == RunSingleBody(profiles[i], o)
       IN  IF ~o.ok /\ calls[i] < 2
           THEN /\ calls' = [calls EXCEPT ![i] = @ + 1]
                /\ UNCHANGED <<semaphore, pc, gwLog, taskResult, runPc>>
           ELSE /\ gwLog' = [gwLog EXCEPT ![i] = Some(o)]
                /\ semaphore' = semaphore + 1
                /\ pc' = [pc EXCEPT ![i] = IF out.ok THEN "done" ELSE "raised"]
                /\ taskResult' = IF out.ok THEN [taskResult EXCEPT ![i] = Some(out.v)] ELSE taskResult
                /\ runPc' = IF ~out.ok /\ runPc = "gather" THEN "raised" ELSE runPc
                /\ UNCHANGED calls
    /\ UNCHANGED <<profiles, concurrencyArg, concurrency, results>>
    /\ UNCHANGED <<clientVars, pureVars>>
    /\ finished_at' = IF RunSingleBody(profiles[i], o).ok
                      THEN [finished_at EXCEPT ![i] = Some(clock)]
                      ELSE finished_at
    /\ UNCHANGED <<clock, started_at>>

\* mutant of TaskFinish: the two timestamps are passed to the result in each
\* other's place
TaskFinishSwappedTimes(i, o) ==
    /\ pc[i] = "call"
    /\ ~CancelRequested(i)
    /\ LET out == RunSingleBody(profiles[i], o)
       IN  /\ gwLog' = [gwLog EXCEPT ![i] = Some(o)]
           /\ semaphore' = semaphore + 1
           /\ pc' = [pc EXCEPT ![i] = IF out.ok THEN "done" ELSE "raised"]
           /\ taskResult' = IF out.ok THEN [taskResult EXCEPT ![i] = Some(out.v)] ELSE taskResult
           /\ runPc' = IF ~out.ok /\ runPc = "gather" THEN "raised" ELSE runPc
    /\ UNCHANGED <<profiles, concurrencyArg, concurrency, calls, results>>
    /\ UNCHANGED <<clientVars, pureVars>>
    /\ started_at' = [started_at EXCEPT ![i] = Some(clock)]
    /\ finished_at' = [finished_at EXCEPT ![i] = started_at[i]]
    /\ UNCHANGED clock

\* mutant of TaskFinish: acquire()/release() without `async with`, the release
\* after the try block's success path only: a failed call keeps its slot
TaskFinishLeaksOnFailure(i, o) ==
    /\ pc[i] = "call"
    /\ ~CancelRequested(i)
    /\ LET out == RunSingleBody(profiles[i], o)
       IN  /\ gwLog' = [gwLog EXCEPT ![i] = Some(o)]
           /\ semaphore' = IF out.ok /\ out.v.success THEN semaphore + 1 ELSE semaphore
           /\ pc' = [pc EXCEPT ![i] = IF out.ok THEN "done" ELSE "raised"]
           /\ taskResult' = IF out.ok THEN [taskResult EXCEPT ![i] = Some(out.v)] ELSE taskResult
           /\ runPc' = IF ~out.ok /\ runPc = "gather" THEN "raised" ELSE runPc
    /\ UNCHANGED <<profiles, concurrencyArg, concurrency, calls, results>>
    /\ UNCHANGED <<clientVars, pureVars>>
    /\ finished_at' = IF RunSingleBody(profiles[i], o).ok
                      THEN [finished_at EXCEPT ![i] = Some(clock)]
                      ELSE finished_at
    /\ UNCHANGED <<clock, started_at>>

\* The gateway call of task i ends with outcome o; the task interprets it, leaves
\* `async with semaphore` (release) and ends.  A task that ends with an exception
\* makes the pending gather() raise it in run().
TaskFinish(i, o) ==
    /\ pc[i] = "call"
    /\ ~CancelRequested(i)
    /\ LET out == RunSingleBody(profiles[i], o)
       IN  /\ gwLog' = [gwLog EXCEPT ![i] = Some(o)]
           /\ semaphore' = semaphore + 1
           /\ IF out.ok
              THEN /\ pc' = [pc EXCEPT ![i] = "done"]
                   /\ taskResult' = [taskResult EXCEPT ![i] = Some(out.v)]
                   /\ UNCHANGED runPc
              ELSE /\ pc' = [pc EXCEPT ![i] = "raised"]
                   /\ runPc' = IF runPc = "gather" THEN "raised" ELSE runPc
                   /\ UNCHANGED taskResult
    /\ UNCHANGED <<profiles, concurrencyArg, concurrency, calls, results>>
    /\ UNCHANGED <<clientVars, pureVars>>
    /\ finished_at' = IF RunSingleBody(profiles[i], o).ok
                      THEN [finished_at EXCEPT ![i] = Some(clock)]
                      ELSE finished_at
    /\ UNCHANGED <<clock, started_at>>

\* gather() is complete
AllDone == \A i \in Jobs : pc[i] = "done"

\* mutant of GatherResults: the failed results are filtered out of the list
GatherSuccessfulOnly ==
    SelectSeq([i \in Jobs |-> taskResult[i].v], LAMBDA r : r.success)

\* the list gather() gives: the tasks' results in the order of the tasks
GatherResults == [i \in Jobs |-> taskResult[i].v]

\* mutant of Return: run() returns with the first task that is done
\* (asyncio.wait(..., return_when=FIRST_COMPLETED)) and the results there are
ReturnFirstCompleted ==
    /\ runPc = "gather"
    /\ \E i \in Jobs : pc[i] = "done"
    /\ runPc' = "returned"
    /\ results' = Some([i \in Jobs |->
                       IF taskResult[i].some THEN taskResult[i].v
                       ELSE ProfileCheckResult(profiles[i], FALSE, None, None, EmptyDict)])
    /\ UNCHANGED <<profiles, concurrencyArg, concurrency, semaphore, pc, calls, gwLog, taskResult>>
    /\ UNCHANGED <<timeVars, clientVars, pureVars>>

\* `results = await asyncio.gather(*tasks); return results`
Return ==
    /\ runPc = "gather"
    /\ AllDone
    /\ runPc' = "returned"
    /\ results' = Some(GatherResults)
    /\ UNCHANGED <<profiles, concurrencyArg, concurrency, semaphore, pc, calls, gwLog, taskResult>>
    /\ UNCHANGED <<timeVars, clientVars, pureVars>>

\* The task awaiting run() is cancelled (asyncio.run() does it on an interrupt):
\* the pending gather() cancels every task that has not ended.
Abort ==
    /\ runPc = "gather"
    /\ runPc' = "cancelling"
    /\ UNCHANGED <<profiles, concurrencyArg, concurrency, semaphore, pc, calls, gwLog, taskResult, results>>
    /\ UNCHANGED <<timeVars, clientVars, pureVars>>

\* CancelledError is thrown into task i at its await; `except Exception` does not
\* catch it, `async with semaphore` releases a held slot, the task ends cancelled.
TaskCancelled(i) ==
    /\ CancelRequested(i)
    /\ runPc = "cancelling"
    /\ pc' = [pc EXCEPT ![i] = "cancelled"]
    /\ semaphore' = IF pc[i] = "call" THEN semaphore + 1 ELSE semaphore
    /\ UNCHANGED <<profiles, concurrencyArg, concurrency, runPc, calls, gwLog, taskResult, results>>
    /\ UNCHANGED <<timeVars, clientVars, pureVars>>

\* every task has ended: CancelledError leaves run()
AbortDone ==
    /\ runPc = "cancelling"
    /\ \A i \in Jobs : pc[i] \in Terminal
    /\ runPc' = "cancelled"
    /\ UNCHANGED <<profiles, concurrencyArg, concurrency, semaphore, pc, calls, gwLog, taskResult, results>>
    /\ UNCHANGED <<timeVars, clientVars, pureVars>>

Next ==
    \/ Run
    \/ \E i \in Jobs : TaskStart(i)
    \/ \E i \in Jobs : Acquire(i)
    \/ \E i \in Jobs : \E o \in run_automation : TaskFinish(i, o)
    \/ Return
    \/ Abort
    \/ \E i \in Jobs : TaskCancelled(i)
    \/ AbortDone

Spec == Init /\ [][Next]_vars

\* ---------------------------------------------------------- forward progress
\* run() on a non-empty profile list with nobody cancelling it.  The event loop
\* runs every task that is ready, and every gateway call ends: each step that can
\* be taken is taken at some time.
LiveProfileLists == UNION {[1..n -> ProfileConfigs] : n \in 1..MaxLiveProfiles}

InitLive ==
    /\ profiles \in LiveProfileLists
    /\ concurrencyArg \in ConcurrencyArgs(Len(profiles))
    /\ concurrency = ClampConcurrency(concurrencyArg)
    /\ runPc = "idle"
    /\ semaphore = 0
    /\ pc = [i \in Jobs |-> "none"]
    /\ calls = [i \in Jobs |-> 0]
    /\ gwLog = [i \in Jobs |-> None]
    /\ taskResult = [i \in Jobs |-> None]
    /\ results = None
    /\ TimeInit
    /\ ClientUnused
    /\ PureUnused

TaskAdmitted == \E i \in Jobs : TaskStart(i) \/ Acquire(i)

CallEnds == \E i \in Jobs : \E o \in run_automation : TaskFinish(i, o)

NextLive ==
    \/ Run
    \/ \E i \in Jobs : TaskStart(i)
    \/ \E i \in Jobs : Acquire(i)
    \/ \E i \in Jobs : \E o \in run_automation : TaskFinish(i, o)
    \/ Return

Fairness ==
    /\ WF_vars(Run)
    /\ WF_vars(TaskAdmitted)
    /\ WF_vars(CallEnds)
    /\ WF_vars(Return)

SpecLive == InitLive /\ [][NextLive]_vars /\ Fairness

\* ------------------------------------------------- run() under a clock
\* Time passes; now_utc() never reads less than it read before.
Tick ==
    /\ clock < MaxClock
    /\ clock' = clock + 1
    /\ UNCHANGED <<started_at, finished_at, checkerVars, clientVars, pureVars>>

TimedProfileLists ==
    UNION {[1..n -> {[id |-> "p1", label |-> None]}] : n \in 1..MaxTimedProfiles}

InitTimed ==
    /\ profiles \in TimedProfileLists
    /\ concurrencyArg \in {1, 2}
    /\ concurrency = ClampConcurrency(concurrencyArg)
    /\ runPc = "idle"
    /\ semaphore = 0
    /\ pc = [i \in Jobs |-> "none"]
    /\ calls = [i \in Jobs |-> 0]
    /\ gwLog = [i \in Jobs |-> None]
    /\ taskResult = [i \in Jobs |-> None]
    /\ results = None
    /\ TimeInit
    /\ ClientUnused
    /\ PureUnused

NextTimed == Next \/ Tick

SpecTimed == InitTimed /\ [][NextTimed]_vars

\* run() has not been called
CheckerUnused ==
    /\ profiles = <<>>
    /\ concurrencyArg = 1
    /\ concurrency = 1
    /\ runPc = "idle"
    /\ semaphore = 0
    /\ pc = <<>>
    /\ calls = <<>>
    /\ gwLog = <<>>
    /\ taskResult = <<>>
    /\ results = None

\* ------------------------------------------------------- AdsPowerClient
\* One AdsPowerClient used by NumCallers tasks, each calling run_automation() and
\* close() any number of times, either directly ("unscoped") or inside
\* `async with AdsPowerClient(...) as client` (cli.py), whose body ends, normally
\* or with an exception, when no call is in progress.  Steps are what runs between
\* two awaits: _get_client() and the start of client.post() are one step, since an
\* uncontended `async with self._lock` does not suspend.
Callers == 1..NumCallers

OpenSessions == {s \in 1..nSessions : closeCount[s] = 0}

InitClient ==
    /\ clientRef = 0
    /\ lockHeld = FALSE
    /\ nSessions = 0
    /\ closeCount = <<>>
    /\ cpc = [c \in Callers |-> "idle"]
    /\ sendLog = [c \in Callers |-> None]
    /\ scopePc \in {"unscoped", "before"}
    /\ CheckerUnused
    /\ TimeInit
    /\ PureUnused

\* mutant of NeedsNewSession: the `if self._client is None` test is missing
NeedsNewSessionAlways == TRUE

\* `if self._client is None`
NeedsNewSession == clientRef = 0

\* the body of _get_client under the lock: the session it returns
GetClientSession == IF NeedsNewSession THEN nSessions + 1 ELSE clientRef

\* _get_client with the lock free: create the session if there is none
GetClient ==
    /\ ~lockHeld
    /\ NeedsNewSession => nSessions < MaxSessions
    /\ clientRef' = GetClientSession
    /\ nSessions' = IF NeedsNewSession THEN nSessions + 1 ELSE nSessions
    /\ closeCount' = IF NeedsNewSession THEN Append(closeCount, 0) ELSE closeCount
    /\ UNCHANGED lockHeld

\* run_automation from `client = await self._get_client()` to the await inside
\* `client.post(...)`: the request is started on the session _get_client gave
SendRequest(c) ==
    /\ GetClient
    /\ cpc' = [cpc EXCEPT ![c] = "post"]
    /\ sendLog' = [sendLog EXCEPT ![c] =
           Some([session |-> GetClientSession, open |-> closeCount'[GetClientSession] = 0])]

\* the callers use the client: it is used without a scope, or the scope is entered
CallersMayRun == scopePc \in {"unscoped", "inside"}

\* a caller calls run_automation: it sends at once, or waits for the lock
CallRunAutomation(c) ==
    /\ CallersMayRun
    /\ cpc[c] = "idle"
    /\ IF lockHeld
       THEN /\ cpc' = [cpc EXCEPT ![c] = "getWait"]
            /\ UNCHANGED <<clientRef, lockHeld, nSessions, closeCount, sendLog>>
       ELSE SendRequest(c)
    /\ UNCHANGED <<scopePc, checkerVars, timeVars, pureVars>>

\* a caller waiting in _get_client gets the lock
GetClientWake(c) ==
    /\ cpc[c] = "getWait"
    /\ SendRequest(c)
    /\ UNCHANGED <<scopePc, checkerVars, timeVars, pureVars>>

\* the request of a caller ends: a response, an error, or the task is cancelled
PostReturn(c) ==
    /\ cpc[c] = "post"
    /\ cpc' = [cpc EXCEPT ![c] = "idle"]
    /\ UNCHANGED <<clientRef, lockHeld, nSessions, closeCount, sendLog, scopePc>>
    /\ UNCHANGED <<checkerVars, timeVars, pureVars>>

\* close() with the lock free, up to `await self._client.aclose()`: TRUE when
\* there is a session, which aclose() then closes with the lock held
CloseBegin ==
    /\ ~lockHeld
    /\ IF clientRef # 0
       THEN /\ closeCount' = [closeCount EXCEPT ![clientRef] = @ + 1]
            /\ lockHeld' = TRUE
       ELSE UNCHANGED <<closeCount, lockHeld>>
    /\ UNCHANGED <<clientRef, nSessions>>

\* a caller calls close()
CallClose(c) ==
    /\ CallersMayRun
    /\ cpc[c] = "idle"
    /\ IF lockHeld
       THEN /\ cpc' = [cpc EXCEPT ![c] = "closeWait"]
            /\ UNCHANGED <<clientRef, lockHeld, nSessions, closeCount>>
       ELSE /\ CloseBegin
            /\ cpc' = [cpc EXCEPT ![c] = IF clientRef # 0 THEN "closing" ELSE "idle"]
    /\ UNCHANGED <<sendLog, scopePc, checkerVars, timeVars, pureVars>>

\* a caller waiting in close() gets the lock
CloseWake(c) ==
    /\ cpc[c] = "closeWait"
    /\ CloseBegin
    /\ cpc' = [cpc EXCEPT ![c] = IF clientRef # 0 THEN "closing" ELSE "idle"]
    /\ UNCHANGED <<sendLog, scopePc, checkerVars, timeVars, pureVars>>

\* mutant of CloseEnd: `self._client = None` is missing
CloseEndKeepsClient ==
    /\ lockHeld' = FALSE
    /\ UNCHANGED <<clientRef, nSessions, closeCount>>

\* close() after aclose(): `self._client = None`, and the lock is released
CloseEnd ==
    /\ clientRef' = 0
    /\ lockHeld' = FALSE
    /\ UNCHANGED <<nSessions, closeCount>>

\* aclose() of a caller's close() is done
CloseFinish(c) ==
    /\ cpc[c] = "closing"
    /\ CloseEnd
    /\ cpc' = [cpc EXCEPT ![c] = "idle"]
    /\ UNCHANGED <<sendLog, scopePc, checkerVars, timeVars, pureVars>>

\* __aenter__: `await self._get_client()`
Enter ==
    /\ scopePc = "before"
    /\ GetClient
    /\ scopePc' = "inside"
    /\ UNCHANGED <<cpc, sendLog, checkerVars, timeVars, pureVars>>

\* mutant of ExitCloses: `if exc_type is None: await self.close()`
ExitClosesUnlessException(how) == how = "normal"

\* __aexit__(exc_type, exc, tb) calls close() however the body ended
ExitCloses(how) == TRUE

\* the body of the `async with` ends (how: "normal" or "exception", a cancelled
\* run included) with no call in progress: __aexit__
Exit(how) ==
    /\ scopePc = "inside"
    /\ \A c \in Callers : cpc[c] = "idle"
    /\ IF ExitCloses(how)
       THEN /\ CloseBegin
            /\ scopePc' = IF clientRef # 0 THEN "closing" ELSE "exited"
       ELSE /\ scopePc' = "exited"
            /\ UNCHANGED <<clientRef, lockHeld, nSessions, closeCount>>
    /\ UNCHANGED <<cpc, sendLog, checkerVars, timeVars, pureVars>>

\* aclose() of the close() of __aexit__ is done
ExitFinish ==
    /\ scopePc = "closing"
    /\ CloseEnd
    /\ scopePc' = "exited"
    /\ UNCHANGED <<cpc, sendLog, checkerVars, timeVars, pureVars>>

\* close() is called once more after the scope was left
CloseAgain ==
    /\ scopePc = "exited"
    /\ CloseBegin
    /\ scopePc' = IF clientRef # 0 THEN "closing" ELSE "closedAgain"
    /\ UNCHANGED <<cpc, sendLog, checkerVars, timeVars, pureVars>>

NextClient ==
    \/ \E c \in Callers : CallRunAutomation(c)
    \/ \E c \in Callers : GetClientWake(c)
    \/ \E c \in Callers : PostReturn(c)
    \/ \E c \in Callers : CallClose(c)
    \/ \E c \in Callers : CloseWake(c)
    \/ \E c \in Callers : CloseFinish(c)
    \/ Enter
    \/ \E how \in {"normal", "exception"} : Exit(how)
    \/ ExitFinish
    \/ CloseAgain

SpecClient == InitClient /\ [][NextClient]_vars

\* ------------------------------------------- the interpreter on its own
\* The values a JSON body can hold at a variable: every text of at most
\* MaxTextLen characters over TextChars, the texts below, and the other scalars.
TextChars == {" ", "y", "Y", "1", "n"}

Texts ==
    UNION {[1..n -> TextChars] : n \in 0..MaxTextLen}
    \cup {<<"Y","E","S">>, <<"n","o","p","e">>, <<" "," "," ">>, <<" ","B","o","b"," ">>,
          <<"t","r","u","e">>, <<"\t","T","r","u","e","\n">>, <<"y","e","s"," ">>, <<"y"," ","e","s">>}

PureValues ==
    {PyText(s) : s \in Texts}
    \cup {PyNone, PyBool(TRUE), PyBool(FALSE), EmptyDict, PyList(<<>>)}
    \cup {PyNum(n) : n \in {-1, 0, 1, 42}}
    \cup {PyFloat(f) : f \in {-5, 0, 35}}

Variables_Authorized == PyDict([k \in {"service_authorized"} |-> PyText(<<"t","r","u","e">>)])

Variables_Serial == PyDict([k \in {"profile_serial"} |-> PyNum(42)])

\* what a body can hold at "data", `absent` when it has no such key
absent == [t |-> "absent"]

DataValues ==
    {absent, PyNone, PyText(<<"x">>), PyList(<<>>), EmptyDict}
    \cup {PyDict([k \in {"variables"} |-> v]) :
             v \in {Variables_Authorized, EmptyDict, PyNone, PyText(<<"x">>), PyList(<<>>)}}

TopVariablesValues == {absent, Variables_Serial, EmptyDict, PyNone, PyText(<<"x">>)}

Body(data, variables) ==
    PyDict([k \in {j \in {"data"} : data # absent} \cup {j \in {"variables"} : variables # absent} |->
               IF k = "data" THEN data ELSE variables])

\* the bodies response.json() can give: mappings, and JSON that is no mapping
PureResponses ==
    {Body(d, v) : d \in DataValues, v \in TopVariablesValues} \cup {PyNone, PyList(<<>>)}

InitPure ==
    /\ pureFn = "none"
    /\ pureArg \in PureResponses \cup PureValues
    /\ pureOut = None
    /\ CheckerUnused
    /\ TimeInit
    /\ ClientUnused

ApplyExtractVariables ==
    /\ pureFn = "none"
    /\ pureArg \in PureResponses
    /\ pureFn' = "_extract_variables"
    /\ pureOut' = _extract_variables(pureArg)
    /\ UNCHANGED <<pureArg, checkerVars, timeVars, clientVars>>

ApplyParseBool ==
    /\ pureFn = "none"
    /\ pureArg \in PureValues
    /\ pureFn' = "_parse_bool"
    /\ pureOut' = _parse_bool(pureArg)
    /\ UNCHANGED <<pureArg, checkerVars, timeVars, clientVars>>

ApplyCoerceOptionalStr ==
    /\ pureFn = "none"
    /\ pureArg \in PureValues
    /\ pureFn' = "_coerce_optional_str"
    /\ pureOut' = _coerce_optional_str(pureArg)
    /\ UNCHANGED <<pureArg, checkerVars, timeVars, clientVars>>

NextPure == ApplyExtractVariables \/ ApplyParseBool \/ ApplyCoerceOptionalStr

SpecPure == InitPure /\ [][NextPure]_vars

\* ================================================================ claims

\* The result the contract gives a job from its own profile and from what its own
\* gateway call did, and from nothing else.
InterpretationOk(o) == o.ok /\ _extract_variables(o.v).ok

ExpectedSuccess(o) == InterpretationOk(o)

ExpectedDetails(o) ==
    IF InterpretationOk(o) THEN Some(AuthorizationDetails(_extract_variables(o.v).v)) ELSE None

ExpectedError(o) ==
    IF InterpretationOk(o) THEN None
    ELSE IF o.ok THEN Some(ExcStr(_extract_variables(o.v).exc)) ELSE Some(ExcStr(o.exc))

Running == {i \in Jobs : pc[i] = "call"}

Failed(i) == pc[i] = "done" /\ ~taskResult[i].v.success

Succeeded(i) == pc[i] = "done" /\ taskResult[i].v.success

\* C1: the list run() returns has one result per profile, in the order of the
\* profiles: the same length, and results[i].profile_id = profiles[i].id.
C1_OneResultPerProfileInOrder ==
    runPc = "returned" =>
        /\ Len(results.v) = Len(profiles)
        /\ \A i \in 1..Len(profiles) : results.v[i].profile_id = profiles[i].id

\* C1 happens: a returned run over profiles with different ids, in which one job
\* failed and one succeeded
C1_Witness ==
    /\ runPc = "returned"
    /\ Len(profiles) >= 2
    /\ profiles[1].id # profiles[2].id
    /\ \E i, j \in Jobs : Failed(i) /\ Succeeded(j)

\* C2: never more than max(1, C) jobs are inside their gateway call, C being the
\* concurrency argument; an argument below 1 gives a limit of 1.
C2_RunningAtMostLimit ==
    /\ Cardinality(Running) <= (IF concurrencyArg >= 1 THEN concurrencyArg ELSE 1)
    /\ semaphore >= 0

\* C2 happens: the argument is below 1, one job runs and another waits at the gate
C2_Witness ==
    /\ concurrencyArg < 1
    /\ \E i, j \in Jobs : pc[i] = "call" /\ pc[j] = "acquire"

\* C3: the success, details and error of a finished job are those its own gateway
\* outcome gives, whatever the other jobs' calls did; and no job is cancelled
\* unless the caller aborted run().
C3_FailureIsolation ==
    \A i \in Jobs :
        /\ pc[i] = "done" =>
              /\ gwLog[i].some
              /\ taskResult[i].some
              /\ taskResult[i].v.success = ExpectedSuccess(gwLog[i].v)
              /\ taskResult[i].v.details = ExpectedDetails(gwLog[i].v)
              /\ taskResult[i].v.error = ExpectedError(gwLog[i].v)
        /\ pc[i] = "cancelled" => runPc \in {"cancelling", "cancelled"}

\* C3 happens: a job's gateway call has failed, another job has succeeded and a
\* third is still in its call
C3_Witness ==
    \E k, i, j \in Jobs :
        /\ pc[k] = "done" /\ ~gwLog[k].v.ok
        /\ Succeeded(i)
        /\ pc[j] = "call"

\* C4: no exception of a gateway call or of the interpretation leaves a job: the
\* job ends with a failed result, gather() never raises, and once every call has
\* ended every job has a result for run() to return.
C4_NoExceptionLeavesAJob ==
    /\ runPc # "raised"
    /\ \A i \in Jobs :
          /\ pc[i] # "raised"
          /\ (gwLog[i].some /\ ~InterpretationOk(gwLog[i].v)) =>
                 pc[i] = "done" /\ taskResult[i].some /\ ~taskResult[i].v.success
    /\ (runPc = "gather" /\ \A i \in Jobs : gwLog[i].some) =>
           \A i \in Jobs : pc[i] = "done" /\ taskResult[i].some

\* C4 happens: run() returned although one job's gateway call raised and another
\* job's interpretation raised
C4_Witness ==
    /\ runPc = "returned"
    /\ \E i, j \in Jobs :
          /\ ~gwLog[i].v.ok
          /\ gwLog[j].v.ok /\ ~InterpretationOk(gwLog[j].v)

\* C5: run() has returned only if every job is done, and then with the complete
\* list; there is no list before that.
C5_JoinBarrier ==
    /\ runPc = "returned" =>
          /\ \A i \in Jobs : pc[i] = "done"
          /\ results.some
          /\ Len(results.v) = Len(profiles)
    /\ results.some => runPc = "returned"

\* C5 happens: run() returned after jobs had to wait for the one slot
C5_Witness ==
    /\ runPc = "returned"
    /\ concurrency = 1
    /\ Len(profiles) >= 2

\* C6: a job that has started its gateway call is never cancelled.
C6_StartedJobNeverCancelled ==
    \A i \in Jobs : calls[i] > 0 => pc[i] # "cancelled"

\* C7: when every gateway call failed, every result has success = false, no
\* details and an error message that is not empty.
C7_AllFailedHaveMessage ==
    (runPc = "returned" /\ \A i \in Jobs : ~gwLog[i].v.ok) =>
        \A i \in Jobs :
            /\ ~results.v[i].success
            /\ ~results.v[i].details.some
            /\ results.v[i].error.some
            /\ results.v[i].error.v # ""

\* C8: in every result, details is present iff success and error is present iff
\* not success.
C8_DetailsIffSuccess ==
    \A i \in Jobs :
        taskResult[i].some =>
            /\ taskResult[i].v.details.some <=> taskResult[i].v.success
            /\ taskResult[i].v.error.some <=> ~taskResult[i].v.success

\* C8 happens: one job succeeded, one failed with an empty message
C8_Witness ==
    \E i, j \in Jobs :
        /\ Succeeded(i)
        /\ Failed(j) /\ taskResult[j].v.error = Some("")

\* C9: the gateway is called at most once per job, exactly once for a job that is
\* done and for every job of a run that returned; a job that has ended never
\* changes again.
C9_CalledExactlyOnce ==
    /\ [](\A i \in Jobs :
             /\ calls[i] <= 1
             /\ pc[i] = "call" => calls[i] = 1
             /\ pc[i] = "done" => calls[i] = 1
             /\ runPc = "returned" => calls[i] = 1)
    /\ [][\A i \in Jobs :
             pc[i] \in Terminal =>
                 /\ pc'[i] = pc[i]
                 /\ calls'[i] = calls[i]
                 /\ gwLog'[i] = gwLog[i]
                 /\ taskResult'[i] = taskResult[i]]_vars

\* C9 happens: run() returned, one job failed and one succeeded, each after one call
C9_Witness ==
    /\ runPc = "returned"
    /\ \E i, j \in Jobs : Failed(i) /\ calls[i] = 1 /\ Succeeded(j) /\ calls[j] = 1

\* A gateway whose outcome depends on the profile id only
DeterministicGateway ==
    \A i, j \in Jobs :
        (gwLog[i].some /\ gwLog[j].some /\ profiles[i].id = profiles[j].id) => gwLog[i] = gwLog[j]

\* what that gateway does for a profile id
GatewayOf(id) == gwLog[CHOOSE j \in Jobs : profiles[j].id = id].v

ExpectedResult(profile) ==
    LET o == GatewayOf(profile.id)
    IN  [profile_id |-> profile.id,
         label |-> profile.label,
         success |-> ExpectedSuccess(o),
         details |-> ExpectedDetails(o),
         error |-> ExpectedError(o),
         raw_response |-> IF o.ok THEN o.v ELSE EmptyDict]

\* C10: with a deterministic gateway the list run() returns is the list of the
\* results the profiles' ids determine, in the order of the profiles, whatever the
\* concurrency limit (below 1, 1, 2, len(profiles), 2*len(profiles)) and the
\* interleaving were.
C10_SameListForEveryLimit ==
    (runPc = "returned" /\ DeterministicGateway) =>
        /\ \A i \in Jobs : gwLog[i].some
        /\ results.v = [i \in 1..Len(profiles) |-> ExpectedResult(profiles[i])]

\* C10 happens: a returned run of a deterministic gateway over a profile id that
\* occurs twice, with a limit of twice the number of profiles
C10_Witness ==
    /\ runPc = "returned"
    /\ DeterministicGateway
    /\ Len(profiles) >= 2
    /\ concurrencyArg = 2 * Len(profiles)
    /\ \E i, j \in Jobs : i # j /\ profiles[i].id = profiles[j].id
    /\ \E i, j \in Jobs : Failed(i) /\ Succeeded(j)

\* C11: a job whose gateway call returned a response never fails: whatever the
\* response holds, the interpreter does not raise and the result has success = true.
C11_InterpreterNeverFailsAJob ==
    \A i \in Jobs :
        (pc[i] = "done" /\ gwLog[i].v.ok) => taskResult[i].v.success

\* C12: run() over an empty profile list does not return a list.
C12_EmptyListDoesNotReturn ==
    Len(profiles) = 0 => runPc # "returned"

\* C20: a job whose gateway call returned has success = true and the details
\* parse_bool / coerce_optional_str give for the extracted variables; for the
\* response {"data": {"variables": {"service_authorized": "true",
\* "service_display_name": " Bob "}}} that is authorized and display name "Bob".
C20_ReturnedCallGivesDetails ==
    \A i \in Jobs :
        (pc[i] = "done" /\ gwLog[i].v.ok) =>
            LET r == taskResult[i].v
                extracted == _extract_variables(gwLog[i].v.v)
            IN  /\ r.success
                /\ r.details.some
                /\ extracted.ok
                /\ r.details.v.raw_variables = extracted.v
                /\ r.details.v.authorized =
                       _parse_bool(DictGet(extracted.v, "service_authorized"))
                /\ r.details.v.display_name =
                       _coerce_optional_str(DictGet(extracted.v, "service_display_name"))
                /\ r.details.v.profile_serial =
                       _coerce_optional_str(DictGet(extracted.v, "profile_serial"))
                /\ gwLog[i].v.v = Response_Bob =>
                       /\ r.details.v.authorized = TRUE
                       /\ r.details.v.display_name = Some(<<"B","o","b">>)

\* t is s without its leading and trailing whitespace
IsTrimOf(t, s) ==
    \E a, b \in 0..Len(s) :
        /\ a + Len(t) + b = Len(s)
        /\ \A k \in 1..a : IsSpace(s[k])
        /\ \A k \in (Len(s) - b + 1)..Len(s) : IsSpace(s[k])
        /\ \A k \in 1..Len(t) : t[k] = s[a + k]
        /\ t # <<>> => ~IsSpace(t[1]) /\ ~IsSpace(t[Len(t)])

\* t is the lower-case word w, in any case of its letters
IsWordIgnoringCase(t, w) ==
    /\ Len(t) = Len(w)
    /\ \A k \in 1..Len(w) :
          \/ t[k] = w[k]
          \/ \E j \in 1..Len(LowerCase) : LowerCase[j] = w[k] /\ UpperCase[j] = t[k]

SubTexts(s) == {SubSeq(s, a, b) : a \in 1..(Len(s) + 1), b \in 0..Len(s)}

\* what the contract says _extract_variables gives for a mapping
ClaimedVariables(response) ==
    LET has(d, key) == IsDict(d) /\ key \in DOMAIN d.kv /\ IsDict(d.kv[key])
    IN  IF has(response, "data") /\ has(response.kv["data"], "variables")
        THEN response.kv["data"].kv["variables"]
        ELSE IF has(response, "variables") THEN response.kv["variables"]
        ELSE EmptyDict

\* C17: for a response mapping, _extract_variables returns data.variables when
\* that is a mapping, else the top-level variables when that is a mapping, else
\* the empty mapping; it never raises.
C17_ExtractVariablesFallsBack ==
    (pureFn = "_extract_variables" /\ IsDict(pureArg)) =>
        pureOut = Returned(ClaimedVariables(pureArg))

\* C18: _parse_bool gives a boolean for every value: a boolean itself; for a
\* text, whether trimmed and in lower case it is "1", "true", "yes" or "y"; for a
\* number, whether it is not zero; false for everything else.
C18_ParseBoolTotal ==
    pureFn = "_parse_bool" =>
        /\ pureOut \in BOOLEAN
        /\ pureOut =
              CASE pureArg.t = "bool" -> pureArg.b
                [] pureArg.t = "str" ->
                      \E t \in SubTexts(pureArg.s) :
                          /\ IsTrimOf(t, pureArg.s)
                          /\ \E w \in {<<"1">>, <<"t","r","u","e">>, <<"y","e","s">>, <<"y">>} :
                                IsWordIgnoringCase(t, w)
                [] pureArg.t = "num" -> pureArg.n # 0
                [] pureArg.t = "float" -> pureArg.f # 0
                [] OTHER -> FALSE
        /\ pureArg = PyNone => pureOut = FALSE
        /\ pureArg = PyText(<<"Y","E","S">>) => pureOut = TRUE
        /\ pureArg = PyNum(0) => pureOut = FALSE
        /\ pureArg = PyFloat(35) => pureOut = TRUE
        /\ pureArg = PyText(<<"n","o","p","e">>) => pureOut = FALSE

\* C18 happens: a text that is a true word only once trimmed and lower-cased
C18_Witness ==
    /\ pureFn = "_parse_bool"
    /\ pureArg = PyText(<<"\t","T","r","u","e","\n">>)
    /\ pureOut = TRUE

\* C19: _coerce_optional_str gives None for None; for any other value the text of
\* the value without leading and trailing whitespace, or None when that is empty;
\* never an empty or untrimmed text.
C19_CoerceOptionalStr ==
    pureFn = "_coerce_optional_str" =>
        /\ pureArg = PyNone => pureOut = None
        /\ pureArg # PyNone =>
              IF \A k \in 1..Len(PyStr(pureArg)) : IsSpace(PyStr(pureArg)[k])
              THEN pureOut = None
              ELSE /\ pureOut.some
                   /\ pureOut.v # <<>>
                   /\ IsTrimOf(pureOut.v, PyStr(pureArg))
        /\ pureArg = PyText(<<" "," "," ">>) => pureOut = None
        /\ pureArg = PyNum(42) => pureOut = Some(<<"4","2">>)
        /\ pureArg = PyFloat(35) => pureOut = Some(<<"3",".","5">>)

\* C19 happens: a text with whitespace around it is coerced
C19_Witness ==
    /\ pureFn = "_coerce_optional_str"
    /\ pureArg = PyText(<<" ","B","o","b"," ">>)
    /\ pureOut = Some(<<"B","o","b">>)

\* C16: every result has finished_at >= started_at; started_at is read before
\* the gateway is called, finished_at after the call has ended.
C16_FinishedNotBeforeStarted ==
    \A i \in Jobs :
        /\ calls[i] > 0 => started_at[i].some
        /\ finished_at[i].some => gwLog[i].some /\ started_at[i].some
        /\ pc[i] = "done" =>
              /\ started_at[i].some
              /\ finished_at[i].some
              /\ finished_at[i].v >= started_at[i].v
              /\ finished_at[i].v <= clock

\* C16 happens: a failed job and a succeeded job, started at different times, each
\* finished later than it started
C16_Witness ==
    \E i, j \in Jobs :
        /\ Failed(i) /\ Succeeded(j)
        /\ started_at[i].v < started_at[j].v
        /\ finished_at[i].v > started_at[i].v
        /\ finished_at[j].v > started_at[j].v

\* ------------------------------------------------------------ the session
\* no call of _get_client has run yet
ClientNeverUsed ==
    /\ scopePc \in {"unscoped", "before"}
    /\ \A c \in Callers : ~sendLog[c].some

\* close() has never reached aclose()
NeverClosed == \A s \in 1..nSessions : closeCount[s] = 0

\* C13: under any interleaving of run_automation and close calls on one client at
\* most one session is open, and it is the one the client holds; there is no
\* session before the first use; and while nothing has been closed, all the calls
\* made so far share the one session the first of them created.
C13_AtMostOneOpenSession ==
    /\ Cardinality(OpenSessions) <= 1
    /\ OpenSessions = IF clientRef # 0 /\ ~lockHeld THEN {clientRef} ELSE {}
    /\ ClientNeverUsed => nSessions = 0
    /\ NeverClosed =>
           /\ nSessions <= 1
           /\ \A c \in Callers : sendLog[c].some => sendLog[c].v.session = 1

\* every caller is inside its first call at once, on the one session
C13_Witness ==
    /\ scopePc = "unscoped"
    /\ closeCount = <<0>>
    /\ \A c \in Callers :
           cpc[c] = "post" /\ sendLog[c].some /\ sendLog[c].v.session = 1

\* C14: no session is ever closed twice, and once the scope of the client is left,
\* normally or through an exception, every session it created has been closed
\* exactly once and none is held; a further close() then closes nothing.
C14_ClosedExactlyOnceAtExit ==
    /\ \A s \in 1..nSessions : closeCount[s] <= 1
    /\ scopePc \in {"exited", "closedAgain"} =>
           /\ clientRef = 0
           /\ ~lockHeld
           /\ \A s \in 1..nSessions : closeCount[s] = 1

\* the scope was left after a close() and a re-use inside it, and close() was
\* called once more
C14_Witness ==
    /\ scopePc = "closedAgain"
    /\ nSessions >= 2
    /\ \E c \in Callers : sendLog[c].some /\ sendLog[c].v.session = nSessions

\* C15: every request a run_automation call starts is started on a session that is
\* open at that moment, also after close() was called and when close() runs while
\* other calls are in progress: a call after a close gets a session created after it.
C15_RequestOnOpenSession ==
    \A c \in Callers :
        sendLog[c].some =>
            /\ sendLog[c].v.open
            /\ sendLog[c].v.session \in 1..nSessions
            /\ cpc[c] = "post" /\ ~lockHeld /\ clientRef # 0
                   => sendLog[c].v.session <= clientRef

\* a call is still in progress on the session a close() closed under it, while a
\* call made after that close has its request on a fresh session
C15_Witness ==
    \E c, d \in Callers :
        /\ cpc[c] = "post" /\ sendLog[c].some /\ sendLog[c].v.session = 1
        /\ closeCount[1] = 1
        /\ cpc[d] = "post" /\ sendLog[d].some /\ sendLog[d].v.session = 2
        /\ closeCount[2] = 0

\* ------------------------------------------------------------ raw_response
\* the gateway call of job i returned a response the interpreter fails on
InterpretationFailed(i) ==
    gwLog[i].some /\ gwLog[i].v.ok /\ ~_extract_variables(gwLog[i].v.v).ok

\* C21: the raw_response of every result is the value the gateway call of that job
\* returned, and the empty mapping when the call raised; a job whose call returned
\* and whose interpretation failed has success = false and still carries the
\* response.  The list run() returns carries the same values.
C21_RawResponseVerbatim ==
    /\ \A i \in Jobs :
           taskResult[i].some =>
               /\ gwLog[i].some
               /\ taskResult[i].v.raw_response =
                      IF gwLog[i].v.ok THEN gwLog[i].v.v ELSE EmptyDict
               /\ InterpretationFailed(i) => ~taskResult[i].v.success
    /\ results.some =>
           /\ Len(results.v) = Len(profiles)
           /\ \A i \in Jobs :
                  results.v[i].raw_response =
                      IF gwLog[i].v.ok THEN gwLog[i].v.v ELSE EmptyDict

\* run() returned a list with a job whose response could not be interpreted, which
\* carries that response, and a job whose call raised, which carries {}
C21_Witness ==
    /\ results.some
    /\ \E i, j \in Jobs :
           /\ InterpretationFailed(i)
           /\ results.v[i].raw_response = Response_DataNull
           /\ ~results.v[i].success
           /\ ~gwLog[j].v.ok
           /\ results.v[j].raw_response = EmptyDict

\* ------------------------------------------------------- the admission gate
\* max(1, C) for the concurrency argument C
GateSize == IF concurrencyArg >= 1 THEN concurrencyArg ELSE 1

\* the jobs inside `async with semaphore`
Holding == {i \in Jobs : pc[i] = "call"}

\* C23: once run() has made the gate, free slots plus jobs holding a slot equal
\* max(1, C) in every state; a job that has ended, failed or not, holds none; and
\* when run() has returned every slot is free.
C23_SlotConservation ==
    /\ runPc # "idle" =>
           /\ semaphore \in 0..GateSize
           /\ semaphore + Cardinality(Holding) = GateSize
    /\ runPc = "returned" => semaphore = GateSize /\ Holding = {}

\* a job whose call failed has ended while another job holds a slot of a gate of
\* two: the failed job's slot is free again
C23_Witness ==
    /\ runPc = "gather"
    /\ GateSize = 2
    /\ semaphore = 1
    /\ \E i, j \in Jobs :
           /\ Failed(i) /\ ~gwLog[i].v.ok
           /\ pc[j] = "call"

\* --------------------------------------------------------- forward progress
\* job i is scheduled and not admitted yet
Pending(i) == i \in Jobs /\ pc[i] \in {"none", "created", "acquire"}

\* job i is behind the gate, in its gateway call
Admitted(i) == i \in Jobs /\ pc[i] = "call"

\* job i has a result
Concluded(i) == i \in Jobs /\ pc[i] = "done" /\ taskResult[i].some

\* a job waits at the gate while no slot is free and no job holds one
GateDeadlocked ==
    /\ \E i \in Jobs : pc[i] = "acquire"
    /\ semaphore <= 0
    /\ Holding = {}

\* C22: for every concurrency argument, those <= 0 included, and every non-empty
\* profile list, with every gateway call ending and fair scheduling: every pending
\* job is admitted, every admitted job reaches Succeeded or Failed, run() returns
\* with every job concluded, and the gate never deadlocks.
C22_ForwardProgress ==
    /\ \A i \in 1..MaxLiveProfiles : Pending(i) ~> Admitted(i)
    /\ \A i \in 1..MaxLiveProfiles : Admitted(i) ~> Concluded(i)
    /\ <>(runPc = "returned" /\ results.some /\ \A i \in Jobs : Concluded(i))
    /\ []~GateDeadlocked

\* with a concurrency argument <= 0 a job waits at the gate while the one slot is
\* held by another job
C22_Witness ==
    /\ concurrencyArg <= 0
    /\ semaphore = 0
    /\ \E i, j \in Jobs : pc[i] = "acquire" /\ pc[j] = "call"

====
